---- MODULE Spec2Model ----
(***************************************************************************)
(* Bee-colony TSP optimizer (BeeTSP.run) and coordinate-descent            *)
(* hyper-parameter tuner (ParameterTuner.tune) of src/solver.py.           *)
(*                                                                         *)
(* Python lists are modelled as TLA+ sequences, so list index j of the     *)
(* code is position j+1 here; city numbers keep the code's 0..N-1.         *)
(***************************************************************************)
EXTENDS Integers, Sequences, FiniteSets

\* ------------------------------------------------------------- bounds
\* number of cities (300 in the code, scaled down)
NUM_CITIES == 4
\* largest num_sites / num_bees / limit_iterations passed to BeeTSP
MaxSites == 2
MaxBees == 3
MaxLimit == 2
\* final best cost of one optimizer run as seen by the tuner: 1..MaxRunCost
MaxRunCost == 2
\* longest candidate range of a tuner axis
MaxCands == 2

\* float('inf'); no tour cost is negative
Inf == -1

\* a < b on numbers extended with float('inf')
Lt(a, b) == a # Inf /\ (b = Inf \/ a < b)

Leq(a, b) == a = b \/ Lt(a, b)

\* ------------------------------------------------------------- distances
Cities == 0 .. (NUM_CITIES - 1)

\* a block of pairwise distances in [5,150] with a zero diagonal, not symmetric
DIST_MATRIX ==
    << << 0, 20, 35, 20, 50,  7 >>,
       << 20, 0, 20, 35, 12, 90 >>,
       << 60, 20, 0, 20, 33, 41 >>,
       << 20, 35, 45, 0, 80, 15 >>,
       << 25, 70, 11, 64, 0, 100 >>,
       << 150, 5, 38, 9, 77,  0 >> >>

Dist(u, v) == DIST_MATRIX[u + 1][v + 1]

RECURSIVE SumEdges(_, _)
SumEdges(path, j) ==
    IF j >= Len(path) THEN 0
    ELSE Dist(path[j], path[j + 1]) + SumEdges(path, j + 1)

calculate_cost(path) == SumEdges(path, 1) + Dist(path[Len(path)], path[1])

\* np.random.permutation(base_path): every ordering of the cities
Permutations == { p \in [1 .. NUM_CITIES -> Cities] :
                    \A x, y \in 1 .. NUM_CITIES : x # y => p[x] # p[y] }

\* the swap written as two plain assignments: position b keeps its city
SwapOverwrite(p, a, b) == [p EXCEPT ![a] = p[b]]

\* p[a], p[b] = p[b], p[a]
Swap(p, a, b) == [p EXCEPT ![a] = p[b], ![b] = p[a]]

\* random.sample(range(NUM_CITIES), 2): two distinct positions, in either order
SamplePairs == { ab \in (1 .. NUM_CITIES) \X (1 .. NUM_CITIES) : ab[1] # ab[2] }

\* best_solution = None
None == << >>

\* ------------------------------------------------------------- state
VARIABLES
    num_bees, num_sites, limit,      \* BeeTSP configuration
    population, costs,               \* locals of run(): tours and their costs
    best_solution, best_cost,        \* incumbent
    history,                         \* best cost after each round
    it, i, k,                        \* round, exploitation site, onlooker counter
    best_sites_indices,              \* elite sites of the current onlooker phase
    pc,                              \* position inside run()
    init_costs,                      \* costs of the population as first created
    phase_population, phase_costs,   \* population/costs when the onlooker phase began
    phase_targets                    \* sites the onlookers of this phase were sent to

beeVars == << num_bees, num_sites, limit, population, costs, best_solution,
              best_cost, history, it, i, k, best_sites_indices, pc,
              init_costs, phase_population, phase_costs, phase_targets >>

VARIABLES
    param_ranges,                    \* candidate values of each axis, in order
    current_params, best_params,     \* current and returned parameter vectors
    changed, cycle,                  \* locals of tune()
    key_idx, val_idx,                \* positions in the two for loops
    best_val_for_key, best_cost_for_key,
    tpc,                             \* position inside tune()
    log,                             \* the Update / Keep lines given to the callback
    evals,                           \* the evaluate() calls made for the current axis
    cycle_start_params               \* current_params when the current cycle began

tunerVars == << param_ranges, current_params, best_params, changed, cycle,
                key_idx, val_idx, best_val_for_key, best_cost_for_key, tpc,
                log, evals, cycle_start_params >>

vars == << beeVars, tunerVars >>

\* ------------------------------------------------------------- BeeTSP
\* acceptance that also takes a candidate of equal cost
ImprovesOrTies(c, cur) == c <= cur

\* acceptance test of a candidate against the site's current cost
Improves(c, cur) == c < cur

\* num_onlookers = self.num_bees - self.num_sites
NumOnlookers == num_bees - num_sites

\* max(1, self.num_sites // 2)
EliteCount == IF num_sites \div 2 > 1 THEN num_sites \div 2 ELSE 1

\* np.argsort(costs): an ordering of the site indices by ascending cost
\* (the order of equal costs is not fixed by the sort)
ArgSorts(cs) ==
    { s \in [1 .. Len(cs) -> 1 .. Len(cs)] :
        /\ \A x, y \in 1 .. Len(cs) : x # y => s[x] # s[y]
        /\ \A x, y \in 1 .. Len(cs) : x < y => cs[s[x]] <= cs[s[y]] }

\* sorted_idx[:n]
Prefix(s, n) == IF n >= Len(s) THEN s ELSE SubSeq(s, 1, n)

SeqRange(s) == { s[x] : x \in 1 .. Len(s) }

\* Perturb that makes every accepted candidate the incumbent
PerturbNoBestCheck(site, a, b) ==
    LET p == Swap(population[site], a, b)
        c == calculate_cost(p)
    IN  IF Improves(c, costs[site])
        THEN /\ population' = [population EXCEPT ![site] = p]
             /\ costs' = [costs EXCEPT ![site] = c]
             /\ best_cost' = c
             /\ best_solution' = p
        ELSE UNCHANGED << population, costs, best_cost, best_solution >>

\* Perturb that stores the accepted tour and leaves the site's cost as it was
PerturbStaleCost(site, a, b) ==
    LET p == Swap(population[site], a, b)
        c == calculate_cost(p)
    IN  IF Improves(c, costs[site])
        THEN /\ population' = [population EXCEPT ![site] = p]
             /\ costs' = costs
             /\ IF Lt(c, best_cost)
                THEN best_cost' = c /\ best_solution' = p
                ELSE UNCHANGED << best_cost, best_solution >>
        ELSE UNCHANGED << population, costs, best_cost, best_solution >>

\* copy the site's tour, swap two positions, keep the copy iff its cost improves
\* on the site's cost, and then the incumbent iff it improves on that too
Perturb(site, a, b) ==
    LET p == Swap(population[site], a, b)
        c == calculate_cost(p)
    IN  IF Improves(c, costs[site])
        THEN /\ population' = [population EXCEPT ![site] = p]
             /\ costs' = [costs EXCEPT ![site] = c]
             /\ IF Lt(c, best_cost)
                THEN best_cost' = c /\ best_solution' = p
                ELSE UNCHANGED << best_cost, best_solution >>
        ELSE UNCHANGED << population, costs, best_cost, best_solution >>

\* ------------------------------------------------------------- ParameterTuner
\* keys = ['num_bees', 'num_sites', 'limit']
keys == << "num_bees", "num_sites", "limit" >>

MAX_CYCLES == 3

\* self.current_params as set by ParameterTuner.__init__
DefaultParams == [num_bees |-> 100, num_sites |-> 25, limit |-> 1000]

\* values a candidate range of each axis is made of
CandVals == [num_bees |-> {10, 30, 100}, num_sites |-> {5, 25}, limit |-> {500, 1000}]

\* candidate ranges of one axis: non-empty, ascending like a range(), at most
\* MaxCands long
AxisRanges(key) ==
    UNION { { s \in [1 .. n -> CandVals[key]] :
                \A x, y \in 1 .. n : x < y => s[x] < s[y] } : n \in 1 .. MaxCands }

\* final best costs history[-1] of the optimizer runs made by evaluate()
RunCosts == 1 .. MaxRunCost

\* np.mean of the three run costs, kept as an exact integer: three times the mean
Mean3(c1, c2, c3) == c1 + c2 + c3

\* the tuner is not running
TunerIdle ==
    /\ param_ranges = [key \in { "num_bees", "num_sites", "limit" } |-> << >>]
    /\ current_params = DefaultParams
    /\ best_params = DefaultParams
    /\ changed = TRUE
    /\ cycle = 0
    /\ key_idx = 0
    /\ val_idx = 0
    /\ best_val_for_key = 0
    /\ best_cost_for_key = Inf
    /\ tpc = "idle"
    /\ log = << >>
    /\ evals = << >>
    /\ cycle_start_params = DefaultParams

\* the optimizer is not running
BeeIdle ==
    /\ num_bees = 0
    /\ num_sites = 0
    /\ limit = 0
    /\ population = << >>
    /\ costs = << >>
    /\ best_solution = None
    /\ best_cost = Inf
    /\ history = << >>
    /\ it = 0
    /\ i = 0
    /\ k = 0
    /\ best_sites_indices = << >>
    /\ pc = "idle"
    /\ init_costs = << >>
    /\ phase_population = << >>
    /\ phase_costs = << >>
    /\ phase_targets = << >>

\* ParameterTuner() with its candidate ranges, at the entry of tune()
TunerInit ==
    /\ BeeIdle
    /\ param_ranges \in [num_bees : AxisRanges("num_bees"),
                         num_sites : AxisRanges("num_sites"),
                         limit : AxisRanges("limit")]
    /\ current_params = DefaultParams
    /\ best_params = DefaultParams
    /\ changed = TRUE
    /\ cycle = 0
    /\ key_idx = 0
    /\ val_idx = 0
    /\ best_val_for_key = 0
    /\ best_cost_for_key = Inf
    /\ tpc = "while"
    /\ log = << >>
    /\ evals = << >>
    /\ cycle_start_params = DefaultParams

\* the while condition without the convergence test
WhileCondNoConvergence == cycle < MAX_CYCLES

\* the while condition letting one cycle too many through
WhileCondOffByOne == changed /\ cycle <= MAX_CYCLES

\* the while condition of tune()
WhileCond == changed /\ cycle < MAX_CYCLES

\* while changed and cycle < MAX_CYCLES: start a cycle
CycleBegin ==
    /\ UNCHANGED beeVars
    /\ tpc = "while"
    /\ WhileCond
    /\ changed' = FALSE
    /\ cycle' = cycle + 1
    /\ key_idx' = 1
    /\ cycle_start_params' = current_params
    /\ tpc' = "key"
    /\ UNCHANGED << param_ranges, current_params, best_params, val_idx,
                    best_val_for_key, best_cost_for_key, log, evals >>

\* the while condition fails: return self.best_params
TuneReturn ==
    /\ UNCHANGED beeVars
    /\ tpc = "while"
    /\ ~ WhileCond
    /\ tpc' = "done"
    /\ UNCHANGED << param_ranges, current_params, best_params, changed, cycle,
                    key_idx, val_idx, best_val_for_key, best_cost_for_key, log,
                    evals, cycle_start_params >>

\* for key in keys: start the axis
KeyBegin ==
    /\ UNCHANGED beeVars
    /\ tpc = "key"
    /\ key_idx <= Len(keys)
    /\ best_val_for_key' = current_params[keys[key_idx]]
    /\ best_cost_for_key' = Inf
    /\ val_idx' = 1
    /\ evals' = << >>
    /\ tpc' = "val"
    /\ UNCHANGED << param_ranges, current_params, best_params, changed, cycle,
                    key_idx, log, cycle_start_params >>

\* the axes are exhausted: back to the while condition
CycleEnd ==
    /\ UNCHANGED beeVars
    /\ tpc = "key"
    /\ key_idx > Len(keys)
    /\ tpc' = "while"
    /\ UNCHANGED << param_ranges, current_params, best_params, changed, cycle,
                    key_idx, val_idx, best_val_for_key, best_cost_for_key, log,
                    evals, cycle_start_params >>

\* the comparison that lets a later candidate of equal cost win
BetterOrEqualCandidate(cost, best) == Leq(cost, best)

\* the candidate is better than the best one of this axis so far
BetterCandidate(cost, best) == Lt(cost, best)

\* for val in self.param_ranges[key]: evaluate one candidate
TestCandidate ==
    /\ UNCHANGED beeVars
    /\ tpc = "val"
    /\ val_idx <= Len(param_ranges[keys[key_idx]])
    /\ LET key == keys[key_idx]
           val == param_ranges[key][val_idx]
           test_params == [current_params EXCEPT ![key] = val]
       IN  \E c1, c2, c3 \in RunCosts :
             LET cost == Mean3(c1, c2, c3)
             IN  /\ evals' = Append(evals, [params |-> test_params, cost |-> cost])
                 /\ IF BetterCandidate(cost, best_cost_for_key)
                    THEN /\ best_cost_for_key' = cost
                         /\ best_val_for_key' = val
                    ELSE UNCHANGED << best_cost_for_key, best_val_for_key >>
    /\ val_idx' = val_idx + 1
    /\ UNCHANGED << param_ranges, current_params, best_params, changed, cycle,
                    key_idx, tpc, log, cycle_start_params >>

\* ConcludeKey that commits the value and does not refresh best_params
ConcludeKeyNoCopy ==
    /\ UNCHANGED beeVars
    /\ tpc = "val"
    /\ val_idx > Len(param_ranges[keys[key_idx]])
    /\ LET key == keys[key_idx]
       IN  IF best_val_for_key # current_params[key]
           THEN /\ log' = Append(log, [kind |-> "Update", cycle |-> cycle, key |-> key,
                                       val |-> best_val_for_key])
                /\ current_params' = [current_params EXCEPT ![key] = best_val_for_key]
                /\ changed' = TRUE
                /\ best_params' = best_params
           ELSE /\ log' = Append(log, [kind |-> "Keep", cycle |-> cycle, key |-> key,
                                       val |-> best_val_for_key])
                /\ UNCHANGED << current_params, changed, best_params >>
    /\ key_idx' = key_idx + 1
    /\ tpc' = "key"
    /\ UNCHANGED << param_ranges, cycle, val_idx, best_val_for_key,
                    best_cost_for_key, evals, cycle_start_params >>

\* the candidates are exhausted: commit the best value of the axis or keep
ConcludeKey ==
    /\ UNCHANGED beeVars
    /\ tpc = "val"
    /\ val_idx > Len(param_ranges[keys[key_idx]])
    /\ LET key == keys[key_idx]
       IN  IF best_val_for_key # current_params[key]
           THEN /\ log' = Append(log, [kind |-> "Update", cycle |-> cycle, key |-> key,
                                       val |-> best_val_for_key])
                /\ current_params' = [current_params EXCEPT ![key] = best_val_for_key]
                /\ changed' = TRUE
                /\ best_params' = current_params'
           ELSE /\ log' = Append(log, [kind |-> "Keep", cycle |-> cycle, key |-> key,
                                       val |-> best_val_for_key])
                /\ UNCHANGED << current_params, changed, best_params >>
    /\ key_idx' = key_idx + 1
    /\ tpc' = "key"
    /\ UNCHANGED << param_ranges, cycle, val_idx, best_val_for_key,
                    best_cost_for_key, evals, cycle_start_params >>

TunerNext ==
    \/ CycleBegin
    \/ TuneReturn
    \/ KeyBegin
    \/ CycleEnd
    \/ TestCandidate
    \/ ConcludeKey

TunerSpec == TunerInit /\ [][TunerNext]_vars

\* tune() runs to completion: every step that is enabled is eventually taken
FairTunerSpec == TunerSpec /\ WF_vars(TunerNext)

\* BeeTSP(num_bees, num_sites, limit_iterations), at the entry of run()
Init ==
    /\ num_bees \in 0 .. MaxBees
    /\ num_sites \in 0 .. MaxSites
    /\ limit \in 0 .. MaxLimit
    /\ population = << >>
    /\ costs = << >>
    /\ best_solution = None
    /\ best_cost = Inf
    /\ history = << >>
    /\ it = 0
    /\ i = 0
    /\ k = 0
    /\ best_sites_indices = << >>
    /\ pc = "init"
    /\ init_costs = << >>
    /\ phase_population = << >>
    /\ phase_costs = << >>
    /\ phase_targets = << >>
    /\ TunerIdle

\* one pass of the loop that creates the population
InitSite ==
    /\ UNCHANGED tunerVars
    /\ pc = "init"
    /\ Len(population) < num_sites
    /\ \E p \in Permutations :
         LET c == calculate_cost(p)
         IN  /\ population' = Append(population, p)
             /\ costs' = Append(costs, c)
             /\ init_costs' = Append(init_costs, c)
             /\ IF Lt(c, best_cost)
                THEN best_cost' = c /\ best_solution' = p
                ELSE UNCHANGED << best_cost, best_solution >>
    /\ UNCHANGED << num_bees, num_sites, limit, history, it, i, k,
                    best_sites_indices, pc, phase_population, phase_costs,
                    phase_targets >>

\* the population loop is exhausted: enter the round loop
InitDone ==
    /\ UNCHANGED tunerVars
    /\ pc = "init"
    /\ Len(population) >= num_sites
    /\ pc' = "round"
    /\ it' = 0
    /\ UNCHANGED << num_bees, num_sites, limit, population, costs, best_solution,
                    best_cost, history, i, k, best_sites_indices, init_costs,
                    phase_population, phase_costs, phase_targets >>

\* the round loop stopping one round early
RoundsLeftOffByOne == it + 1 < limit

\* for it in range(self.limit): rounds remain
RoundsLeft == it < limit

\* for it in range(self.limit): next round
RoundBegin ==
    /\ UNCHANGED tunerVars
    /\ pc = "round"
    /\ RoundsLeft
    /\ pc' = "exploit"
    /\ i' = 1
    /\ UNCHANGED << num_bees, num_sites, limit, population, costs, best_solution,
                    best_cost, history, it, k, best_sites_indices, init_costs,
                    phase_population, phase_costs, phase_targets >>

\* the round loop is exhausted: return self.best_solution, self.history
Return ==
    /\ UNCHANGED tunerVars
    /\ pc = "round"
    /\ ~ RoundsLeft
    /\ pc' = "done"
    /\ UNCHANGED << num_bees, num_sites, limit, population, costs, best_solution,
                    best_cost, history, it, i, k, best_sites_indices, init_costs,
                    phase_population, phase_costs, phase_targets >>

\* exploitation of site i
Exploit ==
    /\ UNCHANGED tunerVars
    /\ pc = "exploit"
    /\ i <= num_sites
    /\ \E ab \in SamplePairs : Perturb(i, ab[1], ab[2])
    /\ i' = i + 1
    /\ UNCHANGED << num_bees, num_sites, limit, history, it, k,
                    best_sites_indices, pc, init_costs, phase_population,
                    phase_costs, phase_targets >>

\* after the last site: rank the sites and pick the elite, or skip the phase
OnlookerBegin ==
    /\ UNCHANGED tunerVars
    /\ pc = "exploit"
    /\ i > num_sites
    /\ phase_population' = population
    /\ phase_costs' = costs
    /\ phase_targets' = << >>
    /\ k' = 0
    /\ IF NumOnlookers > 0
       THEN /\ \E sorted_idx \in ArgSorts(costs) :
                 best_sites_indices' = Prefix(sorted_idx, EliteCount)
            /\ pc' = "onlook"
       ELSE /\ best_sites_indices' = << >>
            /\ pc' = "append"
    /\ UNCHANGED << num_bees, num_sites, limit, population, costs, best_solution,
                    best_cost, history, it, i, init_costs >>

\* one onlooker: a random elite site, perturbed as in the exploitation phase
Onlooker ==
    /\ UNCHANGED tunerVars
    /\ pc = "onlook"
    /\ k < NumOnlookers
    /\ best_sites_indices # << >>
    /\ \E target_site_idx \in SeqRange(best_sites_indices) :
         /\ \E ab \in SamplePairs : Perturb(target_site_idx, ab[1], ab[2])
         /\ phase_targets' = Append(phase_targets, target_site_idx)
    /\ k' = k + 1
    /\ UNCHANGED << num_bees, num_sites, limit, history, it, i,
                    best_sites_indices, pc, init_costs, phase_population,
                    phase_costs >>

\* random.choice of an empty elite array raises IndexError out of run()
OnlookerRaise ==
    /\ UNCHANGED tunerVars
    /\ pc = "onlook"
    /\ k < NumOnlookers
    /\ best_sites_indices = << >>
    /\ pc' = "error"
    /\ UNCHANGED << num_bees, num_sites, limit, population, costs, best_solution,
                    best_cost, history, it, i, k, best_sites_indices, init_costs,
                    phase_population, phase_costs, phase_targets >>

\* the onlooker loop is exhausted
OnlookerEnd ==
    /\ UNCHANGED tunerVars
    /\ pc = "onlook"
    /\ k >= NumOnlookers
    /\ pc' = "append"
    /\ UNCHANGED << num_bees, num_sites, limit, population, costs, best_solution,
                    best_cost, history, it, i, k, best_sites_indices, init_costs,
                    phase_population, phase_costs, phase_targets >>

\* self.history.append(self.best_cost), end of the round
AppendHistory ==
    /\ UNCHANGED tunerVars
    /\ pc = "append"
    /\ history' = Append(history, best_cost)
    /\ it' = it + 1
    /\ pc' = "round"
    /\ UNCHANGED << num_bees, num_sites, limit, population, costs, best_solution,
                    best_cost, i, k, best_sites_indices, init_costs,
                    phase_population, phase_costs, phase_targets >>

Next ==
    \/ InitSite
    \/ InitDone
    \/ RoundBegin
    \/ Return
    \/ Exploit
    \/ OnlookerBegin
    \/ Onlooker
    \/ OnlookerRaise
    \/ OnlookerEnd
    \/ AppendHistory

Spec == Init /\ [][Next]_vars

\* ------------------------------------------------------------- properties
Last(s) == s[Len(s)]

\* the least element of a sequence of costs, float('inf') when it is empty
MinOrInf(cs) ==
    IF cs = << >> THEN Inf
    ELSE CHOOSE m \in SeqRange(cs) : \A x \in SeqRange(cs) : m <= x

IsPermutation(p) ==
    /\ DOMAIN p = 1 .. NUM_CITIES
    /\ { p[x] : x \in 1 .. NUM_CITIES } = Cities

\* C1: over one run the best cost never increases: after the population is
\* created the best cost is the minimum of the initial costs, every History
\* entry is at most that minimum, History is non-increasing, and no step of
\* run() raises best_cost.
C1_State ==
    /\ (pc = "init" \/ (pc = "round" /\ it = 0)) => best_cost = MinOrInf(init_costs)
    /\ pc \notin { "init", "idle" } => Leq(best_cost, MinOrInf(init_costs))
    /\ \A j \in 1 .. Len(history) : Leq(history[j], MinOrInf(init_costs))
    /\ \A j \in 1 .. Len(history) - 1 : Leq(history[j + 1], history[j])
    /\ history # << >> => Leq(best_cost, Last(history))

C1_BestCostNeverIncreases == [] C1_State /\ [][Leq(best_cost', best_cost)]_vars

C1_Witness ==
    /\ pc = "done"
    /\ Len(history) = 2
    /\ history[2] < history[1]
    /\ history[1] < MinOrInf(init_costs)

\* C2: at every point of run() the stored cost of every site is the cost of
\* the tour stored for that site.
C2_CostsMatchTours ==
    /\ Len(costs) = Len(population)
    /\ \A s \in 1 .. Len(population) : costs[s] = calculate_cost(population[s])

C2_Witness ==
    /\ pc = "append"
    /\ \E s \in 1 .. Len(population) :
         /\ population[s] # phase_population[s]
         /\ costs[s] < phase_costs[s]
         /\ phase_costs[s] < init_costs[s]

\* C3: every tour in the population, and the best solution once there is
\* one, is a permutation of the cities 0..N-1.
C3_ToursArePermutations ==
    /\ \A s \in 1 .. Len(population) : IsPermutation(population[s])
    /\ best_solution # None => IsPermutation(best_solution)

C3_Witness ==
    /\ pc = "append"
    /\ num_sites = 2
    /\ population[1] # phase_population[1]
    /\ best_solution = population[1]
    /\ costs[2] < init_costs[2]

\* C4: with num_sites < 1 or limit < 1 no population entry is created, the
\* round loop is never entered and run() never returns.
C4_MalformedConfigFailsFast ==
    (pc # "idle" /\ (num_sites < 1 \/ limit < 1)) =>
        /\ population = << >>
        /\ pc \notin { "exploit", "onlook", "append", "error", "done" }

\* C8: History gets one entry, the best cost, at the end of every round and
\* is otherwise left alone; a run that returns has made exactly limit rounds.
C8_State ==
    /\ Len(history) = it
    /\ (pc \in { "round", "done" } /\ it >= 1) => Last(history) = best_cost
    /\ pc = "done" => Len(history) = limit

C8_HistoryHasLimitEntries ==
    [] C8_State /\ [][history' = history \/
                      (pc = "append" /\ history' = Append(history, best_cost))]_vars

C8_Witness ==
    /\ pc = "done"
    /\ limit = 2
    /\ Len(history) = 2
    /\ history[1] # history[2]

\* the sites a set S may be as the n lowest-cost sites of the costs cs
LowestCost(S, cs, n) ==
    /\ S \subseteq 1 .. Len(cs)
    /\ Cardinality(S) = (IF n < Len(cs) THEN n ELSE Len(cs))
    /\ \A x \in S : \A y \in (1 .. Len(cs)) \ S : cs[x] <= cs[y]

NeighbourOf(p, q) == \E ab \in SamplePairs : q = Swap(p, ab[1], ab[2])

\* C10: an onlooker phase that ends has made max(0, num_bees - num_sites)
\* attempts, all on sites among the max(1, num_sites // 2) cheapest as of the
\* start of the phase; the other sites are as they were; with
\* num_bees <= num_sites nothing changes and nothing is raised; an attempt
\* replaces its site's tour by a one-swap neighbour of strictly lower cost or
\* leaves the site alone.
C10_State ==
    /\ pc = "append" =>
         Len(phase_targets) = (IF num_bees - num_sites > 0 THEN num_bees - num_sites ELSE 0)
    /\ pc \in { "onlook", "append" } =>
         /\ (num_bees > num_sites =>
               LowestCost(SeqRange(best_sites_indices), phase_costs,
                          IF num_sites \div 2 > 1 THEN num_sites \div 2 ELSE 1))
         /\ SeqRange(phase_targets) \subseteq SeqRange(best_sites_indices)
         /\ \A s \in 1 .. Len(population) :
              s \notin SeqRange(best_sites_indices) =>
                  /\ population[s] = phase_population[s]
                  /\ costs[s] = phase_costs[s]
    /\ (pc = "append" /\ num_bees <= num_sites) =>
         population = phase_population /\ costs = phase_costs
    /\ pc = "error" => num_bees > num_sites

C10_Step ==
    (pc = "onlook" /\ pc' = "onlook") =>
        /\ Len(phase_targets') = Len(phase_targets) + 1
        /\ LET t == Last(phase_targets')
           IN  /\ \A s \in 1 .. Len(population) :
                     s # t => population'[s] = population[s] /\ costs'[s] = costs[s]
               /\ \/ population'[t] = population[t]  /\ costs'[t] = costs[t]
                  \/ /\ NeighbourOf(population[t], population'[t])
                     /\ costs'[t] = calculate_cost(population'[t])
                     /\ costs'[t] < costs[t]

KeySet == { keys[x] : x \in 1 .. Len(keys) }

Updates == { x \in 1 .. Len(log) : log[x].kind = "Update" }

\* C5: each value of the vector tune() returns is one of the candidates of
\* its axis, also when the initial value of the axis is not a candidate.
C5_ReturnedValuesAreCandidates ==
    tpc = "done" => \A key \in KeySet : best_params[key] \in SeqRange(param_ranges[key])

C5_Witness ==
    /\ tpc = "done"
    /\ DefaultParams.num_bees \notin SeqRange(param_ranges.num_bees)
    /\ DefaultParams.num_sites \notin SeqRange(param_ranges.num_sites)
    /\ Len(param_ranges.num_bees) = 2
    /\ best_params.num_bees = param_ranges.num_bees[2]

SingleValued == \A key \in KeySet : Len(param_ranges[key]) = 1

\* C6 as stated: with single-value ranges on all three axes tune() makes one
\* cycle, commits no update and returns the three candidates.
C6_SingleValuedOneCycleNoUpdate ==
    (tpc = "done" /\ SingleValued) =>
        /\ cycle = 1
        /\ Updates = { }
        /\ \A key \in KeySet : best_params[key] = param_ranges[key][1]

\* C6 amended: with single-value ranges on all three axes tune() returns the
\* three candidates; it makes one cycle with no update when every candidate
\* is the initial value of its axis, and otherwise two cycles, the first
\* updating exactly the axes whose candidate differs from the initial value
\* and the second updating none.
C6_SingleValuedConverges ==
    (tpc = "done" /\ SingleValued) =>
        /\ \A key \in KeySet : best_params[key] = param_ranges[key][1]
        /\ Len(log) = 3 * cycle
        /\ IF \A key \in KeySet : param_ranges[key][1] = DefaultParams[key]
           THEN cycle = 1 /\ Updates = { }
           ELSE /\ cycle = 2
                /\ \A x \in 1 .. Len(log) :
                     log[x].kind = "Update" <=>
                        /\ log[x].cycle = 1
                        /\ param_ranges[log[x].key][1] # DefaultParams[log[x].key]

C6_Witness ==
    /\ tpc = "done"
    /\ SingleValued
    /\ \A key \in KeySet : param_ranges[key][1] = DefaultParams[key]
    /\ cycle = 1
    /\ Len(log) = 3

C6_WitnessTwoCycles ==
    /\ tpc = "done"
    /\ SingleValued
    /\ param_ranges.num_sites[1] # DefaultParams.num_sites
    /\ cycle = 2

\* C7: tune() terminates after at least one and at most MAX_CYCLES cycles; a
\* cycle is started after another only if that one changed some axis, and
\* after a cycle that changed no axis tune() returns.
C7_Step ==
    /\ tpc' = "done" => (cycle' >= 1 /\ cycle' <= MAX_CYCLES)
    /\ cycle' <= MAX_CYCLES
    /\ (tpc = "while" /\ cycle >= 1 /\ cycle' = cycle + 1) =>
           current_params # cycle_start_params
    /\ (tpc = "while" /\ cycle >= 1 /\ current_params = cycle_start_params) =>
           tpc' = "done"

C7_TuneTerminates == <>(tpc = "done") /\ [][C7_Step]_vars

C7_Witness ==
    /\ tpc = "done"
    /\ cycle = MAX_CYCLES
    /\ current_params # cycle_start_params

\* positions of the candidates of least cost among the evaluations made
ArgMins(es) == { x \in 1 .. Len(es) : \A y \in 1 .. Len(es) : es[x].cost <= es[y].cost }

FirstArgMin(es) == CHOOSE x \in ArgMins(es) : \A y \in ArgMins(es) : x <= y

\* C9: on each axis every candidate is evaluated once, in order, with the
\* other two axes at their current values; the axis is then set to the first
\* candidate of least average cost, and no other axis changes.
C9_State ==
    tpc = "val" =>
        LET key == keys[key_idx]
        IN  /\ Len(evals) = val_idx - 1
            /\ Len(evals) <= Len(param_ranges[key])
            /\ \A x \in 1 .. Len(evals) :
                 evals[x].params = [current_params EXCEPT ![key] = param_ranges[key][x]]

C9_Step ==
    /\ (tpc = "val" /\ tpc' = "key") =>
         LET key == keys[key_idx]
         IN  /\ Len(evals) = Len(param_ranges[key])
             /\ current_params' =
                  [current_params EXCEPT ![key] = param_ranges[key][FirstArgMin(evals)]]
    /\ ~ (tpc = "val" /\ tpc' = "key") => current_params' = current_params

C9_AxisGetsFirstMinimum == [] C9_State /\ [][C9_Step]_vars

C9_Witness ==
    /\ tpc = "key"
    /\ key_idx = 3
    /\ cycle = 2
    /\ Len(evals) = 2
    /\ evals[1].cost = evals[2].cost
    /\ current_params.num_sites = param_ranges.num_sites[1]
    /\ current_params.num_bees # cycle_start_params.num_bees
    /\ current_params.num_sites # cycle_start_params.num_sites

====
